---- MODULE Spec2Model ----
(***************************************************************************)
(* Document ingestion and similarity search of the RAG service             *)
(* (backend/app/services/rag_service.py, ai_service.py, models/rag.py).    *)
(*                                                                         *)
(* The database is the pair of committed tables `documents` and            *)
(* `document_chunks`.  Every RAGService owns one AsyncSession; a call      *)
(* advances from one await (database round trip, embedding request) to the *)
(* next, and what a session wrote becomes visible to the others at commit. *)
(*                                                                         *)
(* Spec        the ingestions of one service for one key, one after the    *)
(*             other, on a session that may be closed between two calls    *)
(*             (one session per request or one session for a sync run),    *)
(*             with a database and an embedder that may fail.              *)
(* SpecSearch  ingestions and searches of one service over the keys of two *)
(*             users and two sources.                                      *)
(* SpecConc    two services whose ingestions of one key interleave, every  *)
(*             call on a fresh session.                                    *)
(***************************************************************************)
EXTENDS Integers, Sequences, FiniteSets, TLC

(***************************************************************************)
(* Bounds of the model.                                                    *)
(***************************************************************************)
\* chunk_text(text, chunk_size=1000, overlap=200) and the literal 100 of its
\* backward scan, scaled down so that short texts have several chunks
ChunkSize == 4
Overlap == 1
SentenceWindow == 2
\* the largest `limit` a search is called with
MaxLimit == 2
\* settings.MAX_CONTEXT_LENGTH = 4000, scaled down like the chunk size
MaxContextLength == 3
\* the clock advances by TickHours, up to MaxTime
TickHours == 12
MaxTime == 24
\* the largest hit_count a cached row is followed to
MaxHits == 2
\* the QueryCache rows the table is followed to
MaxRows == 2
\* the largest chunk_size and the longest text a chunk_text call of SpecChunk is given
MaxChunkSize == 4
MaxTextLen == 5

(***************************************************************************)
(* Program constants.                                                      *)
(***************************************************************************)
\* settings.SIMILARITY_THRESHOLD = 0.7, as the fraction ThresholdNum/ThresholdDen
ThresholdNum == 7
ThresholdDen == 10
\* expires_at = datetime.utcnow() + timedelta(hours=24)
CacheHours == 24
\* the literal 100 of range(end, max(start + chunk_size - 100, start), -1)
ScanBack == 100

Sessions == {"s1", "s2"}

Users == {"u1", "u2"}
Sources == {"gmail", "hubspot"}
SourceIds == {"m1"}
Titles == {"t1", "t2"}

\* Python values of the `metadata` argument and attribute
None == "None"
EmptyDict == "{}"
SomeDict == "{k: v}"
\* the MetaData registry every declarative class inherits as `metadata`
BaseMetadata == "Base.metadata"

\* texts are sequences of characters
ShortText == <<"a", "b">>
LongText == <<"a", "b", "c", ".", "d", " ">>
Contents == {ShortText, LongText}

\* embedding vectors, all of Euclidean norm 25
ChunkVectors == {<<25, 0>>, <<15, 20>>}
QueryVectors == {<<25, 0>>, <<24, 7>>}

\* str(e) of the exceptions that reach _process_document_for_embeddings
EmbeddingFailure == "Failed to generate batch embeddings"
CommitFailure == "commit failed"
NoError == "None"

(***************************************************************************)
(* Helpers.                                                                *)
(***************************************************************************)
Max(S) == CHOOSE x \in S : \A y \in S : y <= x
Min(S) == CHOOSE x \in S : \A y \in S : x <= y
MaxOf(a, b) == IF a >= b THEN a ELSE b
MinOf(a, b) == IF a <= b THEN a ELSE b

Range(f) == {f[i] : i \in DOMAIN f}

\* the sequences that list every element of the finite set S exactly once
Perms(S) ==
  {f \in [1..Cardinality(S) -> S] : \A i, j \in 1..Cardinality(S) : i # j => f[i] # f[j]}

(***************************************************************************)
(* AIService.chunk_text                                                    *)
(***************************************************************************)
Whitespace == {" "}
SentenceEnd == {".", "!", "?"}

\* text[start:end] for 0 <= start
Slice(text, start, end) ==
  IF start >= MinOf(end, Len(text)) THEN <<>>
  ELSE SubSeq(text, start + 1, MinOf(end, Len(text)))

\* str.strip()
Strip(t) ==
  LET keep == {i \in 1..Len(t) : t[i] \notin Whitespace}
  IN IF keep = {} THEN <<>> ELSE SubSeq(t, Min(keep), Max(keep))

\* the cut of the window that starts at `start`: the window end, moved to just
\* after the last sentence end found by range(end, max(start + chunk_size - back, start), -1)
ScanEnd(text, chunk_size, start, back) ==
  LET end == start + chunk_size
      lo == MaxOf(start + chunk_size - back, start)
      hits == {i \in (lo + 1)..end : i + 1 <= Len(text) /\ text[i + 1] \in SentenceEnd}
  IN IF end < Len(text) /\ hits # {} THEN Max(hits) + 1 ELSE end

\* the cut for the texts of ingestion, whose chunk size and scan are scaled down
WindowEnd(text, chunk_size, start) == ScanEnd(text, chunk_size, start, SentenceWindow)

RECURSIVE chunk_loop(_, _, _, _, _)
chunk_loop(text, chunk_size, overlap, start, chunks) ==
  IF ~(start < Len(text)) THEN chunks
  ELSE LET end == WindowEnd(text, chunk_size, start)
           chunk == Strip(Slice(text, start, end))
           out == IF chunk # <<>> THEN Append(chunks, chunk) ELSE chunks
           next == end - overlap
       IN IF next >= Len(text) THEN out
          ELSE chunk_loop(text, chunk_size, overlap, next, out)

chunk_text(text, chunk_size, overlap) ==
  IF Len(text) <= chunk_size THEN <<text>>
  ELSE chunk_loop(text, chunk_size, overlap, 0, <<>>)

(***************************************************************************)
(* State.                                                                  *)
(***************************************************************************)
VARIABLES
  docs,           \* committed rows of `documents`
  chunks,         \* committed rows of `document_chunks`
  identity_map,   \* per session: the ORM instances still alive in the session
  pc,             \* per session: the await the running call is suspended at
  args,           \* per session: the arguments of the running call
  existing_docs,  \* per session: the Documents the lookup loaded, in result order
  document,       \* per session: the in-memory Document of the call (<<>> when none)
  pending,        \* per session: the (chunk, embedding) pairs of the embedder's answer
  exc,            \* per session: str(e) of the exception caught while processing
  caught,         \* per session: the exception ingest_document caught
  outcome,        \* per session: how the call ended
  embed_calls,    \* per session: embedding-provider requests made by the call
  pre,            \* per session: the committed tables when the call began
  alone,          \* per session: no other call has run since the call began
  last,           \* the last call that finished: arguments and result
  found,          \* per session: what search_similar_chunks was asked and answered
  env,            \* the environment of the run: whether a commit or an embedding
                  \* request may fail, the vectors the embedder answers with, and
                  \* whether `pre` and `last` are recorded
  cache,          \* committed rows of `query_cache`
  now,            \* datetime.utcnow(), in hours
  call,           \* per session: the locals of the running retrieval or deletion
  lastq,          \* the last retrieval that finished: arguments and result
  chunker,        \* the locals of a running chunk_text loop
  removed         \* the (user_id, document_id) delete_document has returned True for

\* what ingestion and search leave alone
cache_vars == <<cache, now, call, lastq, chunker, removed>>

vars == <<docs, chunks, identity_map, pc, args, existing_docs, document, pending, exc,
          caught, outcome, embed_calls, pre, alone, last, found, env, cache_vars>>

NoArgs ==
  [user_id |-> "none", source |-> "none", source_id |-> "none", document_type |-> "none",
   title |-> "none", content |-> <<>>, metadata |-> None]

NoSearch ==
  [user_id |-> "none", query_embedding |-> <<0, 0>>, limit |-> 0, sources |-> {},
   document_types |-> {}, rows |-> <<>>, results |-> <<>>]

NoCall ==
  [args |-> NoArgs, outcome |-> "none", is_processed |-> FALSE, exc |-> NoError,
   caught |-> NoError]

NoSnapshot == [docs |-> {}, chunks |-> {}]

\* the query texts of the retrievals
Queries == {"q1", "q2"}

NoLocals ==
  [op |-> "none", user_id |-> "none", query |-> "none", limit |-> 0, sources |-> {},
   document_types |-> {}, document_id |-> <<>>, query_hash |-> <<>>, rows |-> {},
   query_embedding |-> <<0, 0>>, similar_chunks |-> <<>>, context_items |-> <<>>,
   result |-> <<>>,
   raised |-> "None", written |-> <<>>, pre_docs |-> {}, pre_chunks |-> {},
   pre_queries |-> {}, context_summary |-> "none",
   pre_cache |-> {}]

NoQuery ==
  [user_id |-> "none", query |-> "none", query_hash |-> <<>>, outcome |-> "none",
   raised |-> "None", result |-> <<>>, written |-> <<>>, at |-> 0]

NoChunker ==
  [text |-> <<>>, chunk_size |-> 0, overlap |-> 0, start |-> 0, previous |-> -1,
   chunks |-> <<>>, windows |-> <<>>, pc |-> "none"]

NoObjects == [docs |-> {}, chunks |-> {}, queries |-> {}]

\* the arguments of the calls of Spec: every title, content and metadata for one key
IngestArgs ==
  [user_id : {"u1"}, source : {"gmail"}, source_id : SourceIds, document_type : {"email"},
   title : Titles, content : Contents, metadata : {None, SomeDict}]

\* the arguments of the calls of SpecSearch: one payload per key
SearchArgs ==
  {[user_id |-> u, source |-> src, source_id |-> "m1",
    document_type |-> IF src = "gmail" THEN "email" ELSE "contact",
    title |-> "t1", content |-> ShortText, metadata |-> None]
   : u \in Users, src \in Sources} \ {[user_id |-> "u2", source |-> "hubspot",
    source_id |-> "m1", document_type |-> "contact", title |-> "t1",
    content |-> ShortText, metadata |-> None]}

\* the arguments of the calls of SpecConc: two contents for one key
RaceArgs ==
  [user_id : {"u1"}, source : {"gmail"}, source_id : SourceIds, document_type : {"email"},
   title : {"t1"}, content : Contents, metadata : {None}]

Key(r) == <<r.user_id, r.source, r.source_id>>
DocsOfKey(table, k) == {d \in table : Key(d) = k}
DocIds(table) == {d.id : d \in table}
ChunksOf(table, id) == {c \in table : c.document_id = id}
Row(id) == CHOOSE d \in docs : d.id = id

InitService(e) ==
  /\ env = e
  /\ docs = {}
  /\ chunks = {}
  /\ identity_map = [s \in Sessions |-> NoObjects]
  /\ pc = [s \in Sessions |-> "idle"]
  /\ args = [s \in Sessions |-> NoArgs]
  /\ existing_docs = [s \in Sessions |-> <<>>]
  /\ document = [s \in Sessions |-> <<>>]
  /\ pending = [s \in Sessions |-> <<>>]
  /\ exc = [s \in Sessions |-> NoError]
  /\ caught = [s \in Sessions |-> NoError]
  /\ outcome = [s \in Sessions |-> "none"]
  /\ embed_calls = [s \in Sessions |-> 0]
  /\ pre = [s \in Sessions |-> NoSnapshot]
  /\ alone = [s \in Sessions |-> TRUE]
  /\ last = NoCall
  /\ found = [s \in Sessions |-> NoSearch]
  /\ cache = {}
  /\ now = 0
  /\ call = [s \in Sessions |-> NoLocals]
  /\ lastq = NoQuery
  /\ removed = {}

InitWith(e) == InitService(e) /\ chunker = NoChunker

Init ==
  InitWith([faults |-> TRUE, vectors |-> ChunkVectors, observe |-> TRUE,
            cache_faults |-> FALSE])

\* what a commit can do: succeed, or fail when the database may fail
CommitOutcomes == IF env.faults THEN BOOLEAN ELSE {TRUE}

(***************************************************************************)
(* Fresh values.  Document.id is uuid4() and created_at is utcnow(): the   *)
(* model numbers the Documents of one key in creation order, skipping the  *)
(* numbers a session or a snapshot still refers to, and names a chunk by   *)
(* its document, the batch that inserted it and its chunk_index.           *)
(***************************************************************************)
KnownDocs ==
  docs \cup UNION {Range(existing_docs[s]) \cup Range(document[s]) \cup pre[s].docs : s \in Sessions}

KnownChunks == chunks \cup UNION {pre[s].chunks : s \in Sessions}

NextCreatedAt(k) ==
  1 + Max({0} \cup {d.created_at : d \in DocsOfKey(KnownDocs, k)})

NextBatch(id) ==
  Min({n \in 1..(Cardinality(KnownChunks) + 1) : \A c \in ChunksOf(KnownChunks, id) : c.batch # n})

(***************************************************************************)
(* The ORM instances of a session.  `metadata` is no mapped column of      *)
(* Document or DocumentChunk (the columns are document_metadata and        *)
(* chunk_metadata): the constructor and line 109 set it as a plain         *)
(* attribute of the instance, and an instance loaded from a row has only   *)
(* the class attribute Base.metadata.  A query returns the instance of the *)
(* identity map when the session still has one for the row.                *)
(***************************************************************************)
HeldMetadata(s, id) ==
  {o.metadata : o \in {h \in identity_map[s].docs : h.id = id}}

\* existing_doc.metadata
LoadedMetadata(s, d) ==
  IF HeldMetadata(s, d.id) # {} THEN CHOOSE m \in HeldMetadata(s, d.id) : TRUE
  ELSE BaseMetadata

\* the identity map of s once the Document `id` carries the attribute m
Holding(map, id, m) ==
  [map EXCEPT !.docs = {h \in @ : h.id # id} \cup {[id |-> id, metadata |-> m]}]

\* rows that were deleted are in no identity map any more
Forget(maps, doc_ids, chunk_ids) ==
  [s \in Sessions |->
     [docs |-> {h \in maps[s].docs : h.id \notin doc_ids},
      chunks |-> maps[s].chunks \ chunk_ids,
      queries |-> maps[s].queries]]

\* get_db: the session of a request is closed when the request ends
session_close(s) ==
  /\ pc[s] = "idle"
  /\ identity_map[s] # NoObjects
  /\ identity_map' = [identity_map EXCEPT ![s] = NoObjects]
  /\ UNCHANGED <<docs, chunks, pc, args, existing_docs, document, pending, exc, caught,
                 outcome, embed_calls, pre, alone, last, found, env>>
  /\ UNCHANGED cache_vars

(***************************************************************************)
(* Document and DocumentChunk (models/rag.py).                             *)
(***************************************************************************)
\* Document(user_id=..., ..., metadata=metadata or {}) at its INSERT:
\* document_metadata takes its default dict()
NewDocument(a) ==
  LET n == NextCreatedAt(Key(a))
  IN [id |-> <<a.user_id, a.source, a.source_id, n>>,
      user_id |-> a.user_id, source |-> a.source, source_id |-> a.source_id,
      document_type |-> a.document_type, title |-> a.title, content |-> a.content,
      document_metadata |-> EmptyDict, is_processed |-> FALSE,
      processing_error |-> NoError, created_at |-> n]

\* `metadata or {}`
MetadataOrEmpty(m) == IF m = None THEN EmptyDict ELSE m

content_changed(s, d, a) ==
  \/ d.title # a.title
  \/ d.content # a.content
  \/ LoadedMetadata(s, d) # MetadataOrEmpty(a.metadata)

\* DocumentChunk(document_id=..., chunk_index=i, content=chunk, ..., metadata={...})
NewChunks(d, pairs) ==
  LET b == NextBatch(d.id)
  IN {[id |-> <<d.id, b, i - 1>>, document_id |-> d.id, batch |-> b,
       chunk_index |-> i - 1, content |-> pairs[i].content,
       content_length |-> Len(pairs[i].content), embedding |-> pairs[i].embedding,
       chunk_metadata |-> EmptyDict,
       metadata |-> [source |-> d.source, document_type |-> d.document_type, title |-> d.title]]
      : i \in 1..Len(pairs)}

\* `except Exception` of ingest_document: whatever was raised, the caller gets DatabaseError
ingest_document_raises(e) == "DatabaseError"

(***************************************************************************)
(* RAGService.ingest_document, one action per await.                       *)
(***************************************************************************)
\* the call and its first await: select(Document).where(user_id, source, source_id),
\* without ORDER BY, so the rows come in any order
ingest_document_lookup(s, a) ==
  /\ pc[s] = "idle"
  /\ \E order \in Perms(DocsOfKey(docs, Key(a))) :
       /\ existing_docs' = [existing_docs EXCEPT ![s] = order]
       /\ pc' = [pc EXCEPT ![s] = IF Len(order) > 1 THEN "cleanup" ELSE "upsert"]
  /\ args' = [args EXCEPT ![s] = a]
  /\ pre' = [pre EXCEPT ![s] = IF env.observe THEN [docs |-> docs, chunks |-> chunks]
                                ELSE NoSnapshot]
  /\ alone' = [t \in Sessions |-> IF t = s THEN \A u \in Sessions \ {s} : pc[u] = "idle"
                                  ELSE IF pc[t] = "idle" THEN alone[t] ELSE FALSE]
  /\ embed_calls' = [embed_calls EXCEPT ![s] = 0]
  /\ UNCHANGED <<docs, chunks, identity_map, document, pending, exc, caught, outcome, last,
                 found, env>>
  /\ UNCHANGED cache_vars

\* the call ends with an exception: rollback, raise DatabaseError
Raise(s, e) ==
  /\ pc' = [pc EXCEPT ![s] = "done"]
  /\ caught' = [caught EXCEPT ![s] = e]
  /\ outcome' = [outcome EXCEPT ![s] = ingest_document_raises(e)]

\* len(existing_docs) > 1: delete existing_docs[1:] (with their chunks, by the
\* cascade of Document.chunks) and commit
ingest_document_cleanup(s) ==
  /\ pc[s] = "cleanup"
  /\ LET dups == {existing_docs[s][i].id : i \in 2..Len(existing_docs[s])}
         gone == {c.id : c \in {x \in chunks : x.document_id \in dups}}
     IN \E commit_ok \in CommitOutcomes :
          IF commit_ok /\ dups \subseteq DocIds(docs)
          THEN /\ docs' = {d \in docs : d.id \notin dups}
               /\ chunks' = {c \in chunks : c.document_id \notin dups}
               /\ identity_map' = Forget(identity_map, dups, gone)
               /\ pc' = [pc EXCEPT ![s] = "upsert"]
               /\ UNCHANGED <<outcome, caught>>
          ELSE /\ Raise(s, CommitFailure)
               /\ UNCHANGED <<docs, chunks, identity_map>>
  /\ UNCHANGED <<args, existing_docs, document, pending, exc, embed_calls, pre, alone,
                 last, found, env>>
  /\ UNCHANGED cache_vars

\* the UPDATE the unit of work flushes for existing_doc: only the attributes whose
\* new value differs from the loaded one are written
UpdatedRow(s, cur, old, a) ==
  [cur EXCEPT !.title = IF a.title # old.title THEN a.title ELSE cur.title,
              !.content = IF a.content # old.content THEN a.content ELSE cur.content,
              !.is_processed = IF content_changed(s, old, a) /\ old.is_processed
                               THEN FALSE ELSE cur.is_processed]

\* the in-memory existing_doc after lines 107-114
UpdatedObject(s, old, a) ==
  [old EXCEPT !.title = a.title, !.content = a.content,
              !.is_processed = IF content_changed(s, old, a) THEN FALSE ELSE old.is_processed]

\* the bug of an update that leaves the old chunks in place
deleted_chunks_none(s, old, a) == {}

\* delete(DocumentChunk).where(document_id == existing_doc.id), under `if content_changed`
deleted_chunks(s, old, a) ==
  IF content_changed(s, old, a) THEN ChunksOf(chunks, old.id) ELSE {}

\* update of existing_doc (and delete of its chunks when content_changed) or
\* insert of a new Document, then commit
ingest_document_upsert(s) ==
  /\ pc[s] = "upsert"
  /\ LET a == args[s]
         exists == existing_docs[s] # <<>>
         old == existing_docs[s][1]
         m == MetadataOrEmpty(a.metadata)
     IN \E commit_ok \in CommitOutcomes :
          IF commit_ok /\ (exists => old.id \in DocIds(docs))
          THEN /\ IF exists
                  THEN LET gone == deleted_chunks(s, old, a)
                       IN /\ docs' = (docs \ {Row(old.id)})
                                       \cup {UpdatedRow(s, Row(old.id), old, a)}
                          /\ chunks' = chunks \ gone
                          /\ document' = [document EXCEPT ![s] = <<UpdatedObject(s, old, a)>>]
                          /\ identity_map' =
                               [Forget(identity_map, {}, {c.id : c \in gone})
                                  EXCEPT ![s] = Holding(@, old.id, m)]
                  ELSE /\ docs' = docs \cup {NewDocument(a)}
                       /\ chunks' = chunks
                       /\ document' = [document EXCEPT ![s] = <<NewDocument(a)>>]
                       /\ identity_map' =
                            [identity_map EXCEPT ![s] = Holding(@, NewDocument(a).id, m)]
               /\ pc' = [pc EXCEPT ![s] = "refresh"]
               /\ UNCHANGED <<outcome, caught>>
          ELSE /\ Raise(s, CommitFailure)
               \* line 109 has run: the loaded instance keeps the attribute
               /\ identity_map' =
                    IF exists /\ old.id \in DocIds(docs)
                    THEN [identity_map EXCEPT ![s] = Holding(@, old.id, m)]
                    ELSE identity_map
               /\ UNCHANGED <<docs, chunks, document>>
  /\ UNCHANGED <<args, existing_docs, pending, exc, embed_calls, pre, alone, last, found, env>>
  /\ UNCHANGED cache_vars

\* the bug of processing only what the call changed
needs_processing_if_changed(s, d) ==
  existing_docs[s] = <<>> \/ content_changed(s, existing_docs[s][1], args[s])

\* `if not document.is_processed`
needs_processing(s, d) == ~d.is_processed

\* await self.db.refresh(document), then process only if needed
ingest_document_refresh(s) ==
  /\ pc[s] = "refresh"
  /\ LET id == document[s][1].id
     IN IF id \in DocIds(docs)
        THEN /\ document' = [document EXCEPT ![s] = <<Row(id)>>]
             /\ IF ~needs_processing(s, Row(id))
                THEN /\ pc' = [pc EXCEPT ![s] = "done"]
                     /\ outcome' = [outcome EXCEPT ![s] = "returned"]
                     /\ UNCHANGED caught
                ELSE /\ pc' = [pc EXCEPT ![s] = "embed"]
                     /\ UNCHANGED <<outcome, caught>>
        ELSE /\ Raise(s, "Could not refresh instance")
             /\ UNCHANGED document
  /\ UNCHANGED <<docs, chunks, identity_map, args, existing_docs, pending, exc, embed_calls,
                 pre, alone, last, found, env>>
  /\ UNCHANGED cache_vars

(***************************************************************************)
(* RAGService._process_document_for_embeddings                             *)
(***************************************************************************)
\* chunk_text(document.content); await generate_embeddings_batch(chunks)
process_document_embed(s) ==
  /\ pc[s] = "embed"
  /\ embed_calls' = [embed_calls EXCEPT ![s] = @ + 1]
  /\ LET texts == chunk_text(document[s][1].content, ChunkSize, Overlap)
     IN \/ \E embeddings \in [1..Len(texts) -> env.vectors] :
             /\ pending' = [pending EXCEPT ![s] =
                              [i \in 1..Len(texts) |->
                                 [content |-> texts[i], embedding |-> embeddings[i]]]]
             /\ pc' = [pc EXCEPT ![s] = "store"]
             /\ UNCHANGED exc
        \/ /\ env.faults
           /\ exc' = [exc EXCEPT ![s] = EmbeddingFailure]
           /\ pc' = [pc EXCEPT ![s] = "except"]
           /\ UNCHANGED pending
  /\ UNCHANGED <<docs, chunks, identity_map, args, existing_docs, document, outcome, caught,
                 pre, alone, last, found, env>>
  /\ UNCHANGED cache_vars

\* add the DocumentChunks, document.is_processed = True, commit
process_document_store(s) ==
  /\ pc[s] = "store"
  /\ LET d == document[s][1]
         new == NewChunks(d, pending[s])
     IN \E commit_ok \in CommitOutcomes :
          IF commit_ok /\ d.id \in DocIds(docs)
          THEN /\ chunks' = chunks \cup new
               /\ docs' = (docs \ {Row(d.id)}) \cup {[Row(d.id) EXCEPT !.is_processed = TRUE]}
               /\ document' = [document EXCEPT ![s] = <<[Row(d.id) EXCEPT !.is_processed = TRUE]>>]
               /\ identity_map' = [identity_map EXCEPT ![s].chunks = @ \cup {c.id : c \in new}]
               /\ pc' = [pc EXCEPT ![s] = "done"]
               /\ outcome' = [outcome EXCEPT ![s] = "returned"]
               /\ UNCHANGED <<exc, caught>>
          ELSE /\ exc' = [exc EXCEPT ![s] = CommitFailure]
               /\ pc' = [pc EXCEPT ![s] = "except"]
               /\ UNCHANGED <<docs, chunks, document, identity_map, outcome, caught>>
  /\ UNCHANGED <<args, existing_docs, pending, embed_calls, pre, alone, last, found, env>>
  /\ UNCHANGED cache_vars

\* the bug of a handler that does not record the error
failure_record_no_error(row, e) == [row EXCEPT !.is_processed = FALSE]

\* document.is_processed = False; document.processing_error = str(e)
failure_record(row, e) == [row EXCEPT !.is_processed = FALSE, !.processing_error = e]

\* except Exception as e: rollback, is_processed = False, processing_error = str(e),
\* commit, raise AIError (which ingest_document catches in its turn)
process_document_except(s) ==
  /\ pc[s] = "except"
  /\ LET d == document[s][1]
     IN \E commit_ok \in CommitOutcomes :
          IF commit_ok /\ d.id \in DocIds(docs)
          THEN /\ docs' = (docs \ {Row(d.id)}) \cup {failure_record(Row(d.id), exc[s])}
               /\ Raise(s, "AIError")
          ELSE /\ UNCHANGED docs
               /\ Raise(s, CommitFailure)
  /\ UNCHANGED <<chunks, identity_map, args, existing_docs, document, pending, exc,
                 embed_calls, pre, alone, last, found, env>>
  /\ UNCHANGED cache_vars

\* the call is over: its Document or its exception is with the caller
ingest_document_return(s) ==
  /\ pc[s] = "done"
  /\ last' = IF env.observe
             THEN [args |-> args[s], outcome |-> outcome[s],
                   is_processed |-> outcome[s] = "returned" /\ document[s][1].is_processed,
                   exc |-> exc[s], caught |-> caught[s]]
             ELSE NoCall
  /\ pc' = [pc EXCEPT ![s] = "idle"]
  /\ args' = [args EXCEPT ![s] = NoArgs]
  /\ existing_docs' = [existing_docs EXCEPT ![s] = <<>>]
  /\ document' = [document EXCEPT ![s] = <<>>]
  /\ pending' = [pending EXCEPT ![s] = <<>>]
  /\ exc' = [exc EXCEPT ![s] = NoError]
  /\ caught' = [caught EXCEPT ![s] = NoError]
  /\ outcome' = [outcome EXCEPT ![s] = "none"]
  /\ embed_calls' = [embed_calls EXCEPT ![s] = 0]
  /\ pre' = [pre EXCEPT ![s] = NoSnapshot]
  /\ alone' = [alone EXCEPT ![s] = TRUE]
  /\ UNCHANGED <<docs, chunks, identity_map, found, env>>
  /\ UNCHANGED cache_vars

(***************************************************************************)
(* RAGService.search_similar_chunks                                        *)
(***************************************************************************)
Dot(a, b) == a[1] * b[1] + a[2] * b[2]
Norm(a) == CHOOSE n \in 0..50 : n * n = Dot(a, a)

\* similarity_score = 1 - cosine_distance, the fraction num/den
Similarity(q, e) == [num |-> Dot(q, e), den |-> Norm(q) * Norm(e)]

\* x >= y for fractions of positive denominator
FracGeq(x, y) == x.num * y.den >= y.num * x.den

Threshold == [num |-> ThresholdNum, den |-> ThresholdDen]

\* the bug of comparing the distance, not the similarity, with the threshold
passes_threshold_distance(score) ==
  FracGeq(Threshold, [num |-> score.den - score.num, den |-> score.den])

\* similarity_score >= self.similarity_threshold
passes_threshold(score) == FracGeq(score, Threshold)

\* the bug of a query without its user_id condition
search_candidates_any_user(user_id, sources, document_types) ==
  {c \in chunks :
     \E d \in docs :
        /\ d.id = c.document_id
        /\ sources # {} => d.source \in sources
        /\ document_types # {} => d.document_type \in document_types}

\* select(DocumentChunk).join(Document).where(Document.user_id == user_id), with the
\* optional filters (`if sources:` and `if document_types:` skip None and [])
search_candidates(user_id, sources, document_types) ==
  {c \in chunks :
     \E d \in docs :
        /\ d.id = c.document_id
        /\ d.user_id = user_id
        /\ sources # {} => d.source \in sources
        /\ document_types # {} => d.document_type \in document_types}

\* .order_by("distance").limit(limit): the possible answers, rows of equal distance
\* in any order
search_rows(candidates, q, limit) ==
  LET k == MinOf(limit, Cardinality(candidates))
      score(c) == Similarity(q, c.embedding)
  IN {r \in [1..k -> candidates] :
        /\ \A i, j \in 1..k : i < j => r[i] # r[j] /\ FracGeq(score(r[i]), score(r[j]))
        /\ \A c \in candidates \ Range(r) : \A i \in 1..k : FracGeq(score(r[i]), score(c))}

\* the dict appended to `results` for one row
search_result(c, q) ==
  [chunk_id |-> c.id, document_id |-> c.document_id, content |-> c.content,
   similarity_score |-> Similarity(q, c.embedding), metadata |-> c.metadata,
   source |-> c.metadata.source, document_type |-> c.metadata.document_type,
   title |-> c.metadata.title]

RECURSIVE search_results(_, _)
search_results(rows, q) ==
  IF rows = <<>> THEN <<>>
  ELSE IF passes_threshold(Similarity(q, Head(rows).embedding))
       THEN <<search_result(Head(rows), q)>> \o search_results(Tail(rows), q)
       ELSE search_results(Tail(rows), q)

\* chunk.metadata.get(...) works on the instances the session still holds from
\* their construction and is an AttributeError on a loaded one
search_raises(s, rows, q) ==
  \E i \in 1..Len(rows) :
     /\ passes_threshold(Similarity(q, rows[i].embedding))
     /\ rows[i].id \notin identity_map[s].chunks

search_similar_chunks(s, user_id, q, limit, sources, document_types) ==
  /\ pc[s] = "idle"
  /\ \E rows \in search_rows(search_candidates(user_id, sources, document_types), q, limit) :
       /\ found' = [found EXCEPT ![s] =
                      [user_id |-> user_id, query_embedding |-> q, limit |-> limit,
                       sources |-> sources, document_types |-> document_types,
                       rows |-> rows,
                       results |-> IF search_raises(s, rows, q) THEN <<>>
                                   ELSE search_results(rows, q)]]
       /\ outcome' = [outcome EXCEPT ![s] = IF search_raises(s, rows, q)
                                            THEN "DatabaseError" ELSE "returned"]
  /\ pc' = [pc EXCEPT ![s] = "searched"]
  /\ UNCHANGED <<docs, chunks, identity_map, args, existing_docs, document, pending, exc,
                 caught, embed_calls, pre, alone, last, env>>
  /\ UNCHANGED cache_vars

search_return(s) ==
  /\ pc[s] = "searched"
  /\ pc' = [pc EXCEPT ![s] = "idle"]
  /\ found' = [found EXCEPT ![s] = NoSearch]
  /\ outcome' = [outcome EXCEPT ![s] = "none"]
  /\ UNCHANGED <<docs, chunks, identity_map, args, existing_docs, document, pending, exc,
                 caught, embed_calls, pre, alone, last, env>>
  /\ UNCHANGED cache_vars

(***************************************************************************)
(* RAGService.retrieve_context_for_query, one action per await, with       *)
(* _get_cached_query and _cache_query_result.  A QueryCache row is written *)
(* with expires_at set, so the IS NULL arm of the expiry predicate never   *)
(* applies.  The commit of the cache write is the commit that may fail.    *)
(***************************************************************************)
\* the failure _get_cached_query logs before it returns None
LookupFailure == "Failed to get cached query"

\* what a commit of the query cache can do
CacheCommitOutcomes == IF env.cache_faults THEN BOOLEAN ELSE {TRUE}

\* hashlib.sha256(query.encode()).hexdigest(): one digest for each text
get_query_hash(query) == <<"sha256", query>>

\* the bug of a lookup without the expiry predicate
not_expired_ever(row) == TRUE

\* QueryCache.expires_at > datetime.utcnow()
not_expired(row) == row.expires_at > now

\* select(QueryCache).where(user_id, query_hash, not expired)
cached_rows(user_id, query_hash) ==
  {r \in cache : r.user_id = user_id /\ r.query_hash = query_hash /\ not_expired(r)}

\* result.scalar_one_or_none() inside `try ... except Exception: return None`: the row
\* when there is exactly one, None when there is none, and None again when there are
\* several (MultipleResultsFound is caught)
scalar_one_or_none(rows) == IF Cardinality(rows) = 1 THEN rows ELSE {}

CacheKeyRows(table, user_id, query_hash) ==
  {r \in table : r.user_id = user_id /\ r.query_hash = query_hash}

\* QueryCache.id is uuid4(): the rows of one key are numbered as they are written
NextCacheId(user_id, query_hash) ==
  LET known == cache \cup UNION {call[s].pre_cache : s \in Sessions}
      used == {r.id[3] : r \in CacheKeyRows(known, user_id, query_hash)}
                \cup (IF lastq.written # <<>> /\ lastq.user_id = user_id
                         /\ lastq.query_hash = query_hash
                      THEN {lastq.written[3]} ELSE {})
  IN <<user_id, query_hash, 1 + Max({0} \cup used)>>

\* the call and its first await: the SELECT of _get_cached_query
retrieve_lookup(s, user_id, query, limit, sources, document_types) ==
  /\ pc[s] = "idle"
  /\ LET h == get_query_hash(query)
         rows == scalar_one_or_none(cached_rows(user_id, h))
     IN /\ \A r \in rows : r.hit_count < MaxHits
        /\ call' = [call EXCEPT ![s] =
                      [NoLocals EXCEPT !.op = "retrieve", !.user_id = user_id,
                                       !.query = query, !.limit = limit,
                                       !.sources = sources,
                                       !.document_types = document_types,
                                       !.query_hash = h, !.rows = rows,
                                       !.pre_cache = cache,
                                       !.pre_queries = identity_map[s].queries]]
        /\ pc' = [pc EXCEPT ![s] = IF rows # {} THEN "hit" ELSE "embed_query"]
  /\ embed_calls' = [embed_calls EXCEPT ![s] = 0]
  /\ alone' = [t \in Sessions |-> IF t = s THEN \A u \in Sessions \ {s} : pc[u] = "idle"
                                  ELSE IF pc[t] = "idle" THEN alone[t] ELSE FALSE]
  /\ UNCHANGED <<docs, chunks, identity_map, args, existing_docs, document, pending, exc,
                 caught, outcome, pre, last, found, env, cache, now, lastq, chunker, removed>>

\* cached_query.hit_count: the attribute of the instance the session already has for
\* the row (a SELECT does not overwrite the attributes of an instance of the identity
\* map), else the value of the row it loaded
HeldHitCount(s, r) ==
  LET held == {o \in identity_map[s].queries : o.id = r.id}
  IN IF held # {} THEN (CHOOSE o \in held : TRUE).hit_count ELSE r.hit_count

\* the identity map of s once its QueryCache instance `id` has hit_count n
HoldingQuery(map, id, n) ==
  [map EXCEPT !.queries = {o \in @ : o.id # id} \cup {[id |-> id, hit_count |-> n]}]

\* cached_query.hit_count += 1; last_accessed_at = utcnow(); commit; the cached list is
\* the answer of the call.  The UPDATE writes the value the session computed.  When
\* the commit fails, `except Exception` returns None and the call goes on as a miss,
\* in a session whose transaction failed.
retrieve_hit(s) ==
  /\ pc[s] = "hit"
  /\ LET r == CHOOSE x \in call[s].rows : TRUE
         n == HeldHitCount(s, r) + 1
     IN /\ n <= MaxHits
        /\ \E commit_ok \in CacheCommitOutcomes :
             IF commit_ok
             THEN /\ cache' = {IF x.id = r.id
                               THEN [x EXCEPT !.hit_count = n, !.last_accessed_at = now]
                               ELSE x : x \in cache}
                  /\ identity_map' = [identity_map EXCEPT ![s] = HoldingQuery(@, r.id, n)]
                  /\ call' = [call EXCEPT ![s].result = r.retrieved_chunks,
                                          ![s].written = r.id]
                  /\ pc' = [pc EXCEPT ![s] = "retrieved"]
                  /\ outcome' = [outcome EXCEPT ![s] = "returned"]
             ELSE /\ cache' = cache
                  /\ identity_map' = [identity_map EXCEPT ![s].queries = {}]
                  /\ call' = [call EXCEPT ![s].raised = LookupFailure]
                  /\ pc' = [pc EXCEPT ![s] = "embed_query"]
                  /\ UNCHANGED outcome
  /\ UNCHANGED <<docs, chunks, args, existing_docs, document, pending, exc,
                 caught, embed_calls, pre, alone, last, found, env, now, lastq, chunker, removed>>

\* await self.ai_service.generate_embedding(query); its AIError ends the call
retrieve_embed(s) ==
  /\ pc[s] = "embed_query"
  /\ embed_calls' = [embed_calls EXCEPT ![s] = @ + 1]
  /\ \/ \E q \in QueryVectors :
          /\ call' = [call EXCEPT ![s].query_embedding = q]
          /\ pc' = [pc EXCEPT ![s] = "search"]
          /\ UNCHANGED outcome
     \/ /\ env.cache_faults
        /\ call' = [call EXCEPT ![s].raised = "Failed to generate embedding"]
        /\ pc' = [pc EXCEPT ![s] = "retrieved"]
        /\ outcome' = [outcome EXCEPT ![s] = "AIError"]
  /\ UNCHANGED <<docs, chunks, identity_map, args, existing_docs, document, pending, exc,
                 caught, pre, alone, last, found, env, cache, now, lastq, chunker, removed>>

\* the bug of a budget test that forgets the chunk it is about to add
over_budget_before(total_length, chunk) == total_length > MaxContextLength

\* total_length + len(chunk["content"]) > self.max_context_length
over_budget(total_length, chunk) == total_length + Len(chunk.content) > MaxContextLength

\* the dict appended to context_items; int() truncates the score
context_item(chunk) ==
  [content |-> chunk.content, source |-> chunk.source,
   document_type |-> chunk.document_type, title |-> chunk.title,
   relevance_score |-> (chunk.similarity_score.num * 100) \div chunk.similarity_score.den,
   chunk_id |-> chunk.chunk_id, document_id |-> chunk.document_id]

\* the loop with `continue` in the place of `break`
RECURSIVE context_loop_continue(_, _, _)
context_loop_continue(similar_chunks, context_items, total_length) ==
  IF similar_chunks = <<>> THEN context_items
  ELSE IF over_budget(total_length, Head(similar_chunks))
       THEN context_loop_continue(Tail(similar_chunks), context_items, total_length)
       ELSE context_loop_continue(Tail(similar_chunks),
                                  Append(context_items, context_item(Head(similar_chunks))),
                                  total_length + Len(Head(similar_chunks).content))

\* for chunk in similar_chunks: break at the first chunk that does not fit
RECURSIVE context_loop(_, _, _)
context_loop(similar_chunks, context_items, total_length) ==
  IF similar_chunks = <<>> THEN context_items
  ELSE IF over_budget(total_length, Head(similar_chunks)) THEN context_items
       ELSE context_loop(Tail(similar_chunks),
                         Append(context_items, context_item(Head(similar_chunks))),
                         total_length + Len(Head(similar_chunks).content))

\* search_similar_chunks(limit=limit * 2, ...) and the loop over its answer; the
\* DatabaseError of the search ends the call with AIError.  In a session whose commit
\* failed and that was not rolled back, the SELECT may raise as well.
retrieve_search(s) ==
  /\ pc[s] = "search"
  /\ LET c == call[s]
     IN \E rows \in search_rows(search_candidates(c.user_id, c.sources, c.document_types),
                                c.query_embedding, c.limit * 2),
           session_fails \in IF c.raised = LookupFailure THEN BOOLEAN ELSE {FALSE} :
          IF search_raises(s, rows, c.query_embedding) \/ session_fails
          THEN /\ call' = [call EXCEPT ![s].raised = "Failed to search similar chunks"]
               /\ pc' = [pc EXCEPT ![s] = "retrieved"]
               /\ outcome' = [outcome EXCEPT ![s] = "AIError"]
          ELSE /\ LET similar_chunks == search_results(rows, c.query_embedding)
                  IN call' = [call EXCEPT ![s].similar_chunks = similar_chunks,
                                          ![s].context_items =
                                             context_loop(similar_chunks, <<>>, 0)]
               /\ pc' = [pc EXCEPT ![s] = "cache_write"]
               /\ UNCHANGED outcome
  /\ UNCHANGED <<docs, chunks, identity_map, args, existing_docs, document, pending, exc,
                 caught, embed_calls, pre, alone, last, found, env, cache, now, lastq,
                 chunker, removed>>

\* summarize_text answers with the model's summary or, when the request fails, with
\* the text it was given, cut: it never raises
SummaryOutcomes == IF env.cache_faults THEN {"summary", "text[:200]"} ELSE {"summary"}

\* QueryCache(user_id=..., ..., expires_at=datetime.utcnow() + timedelta(hours=24))
NewCacheRow(c, summary) ==
  [id |-> NextCacheId(c.user_id, c.query_hash), user_id |-> c.user_id,
   query_hash |-> c.query_hash, query_text |-> c.query,
   query_embedding |-> c.query_embedding, retrieved_chunks |-> c.context_items,
   context_summary |-> summary, hit_count |-> 0, last_accessed_at |-> now,
   created_at |-> now, expires_at |-> now + CacheHours]

\* the bug of an except block without the rollback: the pending row stays in the
\* session and goes out with its next commit
written_rows_no_rollback(commit_ok, row) == cache \cup {row}

\* self.db.add(cache_entry); commit; except: rollback
written_rows(commit_ok, row) == IF commit_ok THEN cache \cup {row} ELSE cache

\* _cache_query_result: summarize, add the row, commit; a failure is logged and
\* swallowed, and the call returns context_items either way
retrieve_cache_write(s) ==
  /\ pc[s] = "cache_write"
  /\ Cardinality(cache) < MaxRows
  /\ \E summary \in SummaryOutcomes, commit_ok \in CacheCommitOutcomes :
       LET row == NewCacheRow(call[s], summary)
       IN /\ cache' = written_rows(commit_ok, row)
          /\ IF commit_ok
             THEN /\ identity_map' = [identity_map EXCEPT ![s] = HoldingQuery(@, row.id, 0)]
                  /\ call' = [call EXCEPT ![s].result = call[s].context_items,
                                          ![s].context_summary = summary,
                                          ![s].written = row.id]
             ELSE \* rollback: the instances of the session are expired
                  /\ identity_map' = [identity_map EXCEPT ![s].queries = {}]
                  /\ call' = [call EXCEPT ![s].result = call[s].context_items,
                                          ![s].context_summary = summary,
                                          ![s].raised = CommitFailure]
  /\ pc' = [pc EXCEPT ![s] = "retrieved"]
  /\ outcome' = [outcome EXCEPT ![s] = "returned"]
  /\ UNCHANGED <<docs, chunks, args, existing_docs, document, pending, exc,
                 caught, embed_calls, pre, alone, last, found, env, now, lastq, chunker, removed>>

\* the call is over: its list or its AIError is with the caller
retrieve_return(s) ==
  /\ pc[s] = "retrieved"
  /\ lastq' = [user_id |-> call[s].user_id, query |-> call[s].query,
               query_hash |-> call[s].query_hash, outcome |-> outcome[s],
               raised |-> call[s].raised, result |-> call[s].result, written |-> call[s].written, at |-> now]
  /\ pc' = [pc EXCEPT ![s] = "idle"]
  /\ call' = [call EXCEPT ![s] = NoLocals]
  /\ outcome' = [outcome EXCEPT ![s] = "none"]
  /\ embed_calls' = [embed_calls EXCEPT ![s] = 0]
  /\ alone' = [alone EXCEPT ![s] = TRUE]
  /\ UNCHANGED <<docs, chunks, identity_map, args, existing_docs, document, pending, exc,
                 caught, pre, last, found, env, cache, now, chunker, removed>>

\* time passes between two calls
Tick ==
  /\ \A s \in Sessions : pc[s] = "idle"
  /\ now + TickHours <= MaxTime
  /\ now' = now + TickHours
  /\ UNCHANGED <<docs, chunks, identity_map, pc, args, existing_docs, document, pending,
                 exc, caught, outcome, embed_calls, pre, alone, last, found, env, cache,
                 call, lastq, chunker, removed>>

(***************************************************************************)
(* RAGService.delete_document and clear_user_data.  The statements are     *)
(* bulk DELETEs: the cascade of the relationship Document.chunks is not    *)
(* applied to them, and the foreign key document_chunks.document_id is     *)
(* declared without ON DELETE, so the database refuses to delete a         *)
(* Document that chunks still refer to.                                    *)
(***************************************************************************)
\* a document_id that no Document has
MissingId == <<"u1", "gmail", "m1", 0>>

\* ForeignKey("documents.id"): some chunk refers to one of the Documents
foreign_key_violated(doc_ids) == \E c \in chunks : c.document_id \in doc_ids

\* delete(Document).where(Document.id == document_id, Document.user_id == user_id):
\* the statement raises IntegrityError, or matches no row, or has its rows deleted
\* in the transaction
delete_document_execute(s, user_id, document_id) ==
  /\ pc[s] = "idle"
  /\ LET matched == {d.id : d \in {x \in docs : x.id = document_id /\ x.user_id = user_id}}
     IN /\ call' = [call EXCEPT ![s] =
                      [NoLocals EXCEPT !.op = "delete", !.user_id = user_id,
                                       !.document_id = document_id, !.rows = matched,
                                       !.pre_docs = docs, !.pre_chunks = chunks,
                                       !.pre_cache = cache,
                                       !.raised = IF foreign_key_violated(matched)
                                                  THEN "IntegrityError" ELSE None]]
        /\ IF foreign_key_violated(matched)
           THEN \* except Exception: rollback, log, return False
                /\ pc' = [pc EXCEPT ![s] = "deleted"]
                /\ outcome' = [outcome EXCEPT ![s] = "False"]
           ELSE IF matched = {}
           THEN \* result.rowcount == 0: return False
                /\ pc' = [pc EXCEPT ![s] = "deleted"]
                /\ outcome' = [outcome EXCEPT ![s] = "False"]
           ELSE /\ pc' = [pc EXCEPT ![s] = "delete_commit"]
                /\ UNCHANGED outcome
  /\ alone' = [t \in Sessions |-> IF t = s THEN \A u \in Sessions \ {s} : pc[u] = "idle"
                                  ELSE IF pc[t] = "idle" THEN alone[t] ELSE FALSE]
  /\ UNCHANGED <<docs, chunks, identity_map, args, existing_docs, document, pending, exc,
                 caught, embed_calls, pre, last, found, env, cache, now, lastq, chunker, removed>>

\* result.rowcount > 0: commit and return True; a commit that fails is rolled back
\* and the call returns False
delete_document_commit(s) ==
  /\ pc[s] = "delete_commit"
  /\ \E commit_ok \in CommitOutcomes :
       IF commit_ok
       THEN /\ docs' = {d \in docs : d.id \notin call[s].rows}
            /\ identity_map' = Forget(identity_map, call[s].rows, {})
            /\ outcome' = [outcome EXCEPT ![s] = "True"]
            /\ removed' = removed \cup {<<call[s].user_id, call[s].document_id>>}
            /\ UNCHANGED call
       ELSE /\ call' = [call EXCEPT ![s].raised = CommitFailure]
            /\ outcome' = [outcome EXCEPT ![s] = "False"]
            /\ UNCHANGED <<docs, identity_map, removed>>
  /\ pc' = [pc EXCEPT ![s] = "deleted"]
  /\ UNCHANGED <<chunks, args, existing_docs, document, pending, exc, caught, embed_calls,
                 pre, alone, last, found, env, cache, now, lastq, chunker>>

\* delete(QueryCache).where(QueryCache.user_id == user_id): the rows are deleted in
\* the transaction of the call
clear_user_data_cache(s, user_id) ==
  /\ pc[s] = "idle"
  /\ call' = [call EXCEPT ![s] =
                [NoLocals EXCEPT !.op = "clear", !.user_id = user_id,
                                 !.rows = {r.id : r \in {x \in cache : x.user_id = user_id}},
                                 !.pre_docs = docs, !.pre_chunks = chunks,
                                 !.pre_cache = cache]]
  /\ pc' = [pc EXCEPT ![s] = "clear_chunks"]
  /\ alone' = [t \in Sessions |-> IF t = s THEN \A u \in Sessions \ {s} : pc[u] = "idle"
                                  ELSE IF pc[t] = "idle" THEN alone[t] ELSE FALSE]
  /\ UNCHANGED <<docs, chunks, identity_map, args, existing_docs, document, pending, exc,
                 caught, outcome, embed_calls, pre, last, found, env, cache, now, lastq,
                 chunker, removed>>

\* delete(DocumentChunk).join(Document): a Delete statement has no method `join`, so
\* building the statement raises AttributeError; except Exception: rollback (the
\* deletion of the cache rows is undone), log, return False.  Lines 534-538 are
\* never reached.
clear_user_data_chunks(s) ==
  /\ pc[s] = "clear_chunks"
  /\ call' = [call EXCEPT ![s].raised = "AttributeError", ![s].rows = {}]
  /\ pc' = [pc EXCEPT ![s] = "cleared"]
  /\ outcome' = [outcome EXCEPT ![s] = "False"]
  /\ UNCHANGED <<docs, chunks, identity_map, args, existing_docs, document, pending, exc,
                 caught, embed_calls, pre, alone, last, found, env, cache, now, lastq,
                 chunker, removed>>

\* the call is over: its bool is with the caller
maintenance_return(s) ==
  /\ pc[s] \in {"deleted", "cleared"}
  /\ pc' = [pc EXCEPT ![s] = "idle"]
  /\ call' = [call EXCEPT ![s] = NoLocals]
  /\ outcome' = [outcome EXCEPT ![s] = "none"]
  /\ alone' = [alone EXCEPT ![s] = TRUE]
  /\ UNCHANGED <<docs, chunks, identity_map, args, existing_docs, document, pending, exc,
                 caught, embed_calls, pre, last, found, env, cache, now, lastq, chunker, removed>>

(***************************************************************************)
(* AIService.chunk_text, one action per iteration of its loop, for every   *)
(* chunk_size and overlap a caller may pass, with the scan of 100          *)
(* characters the code has.  A loop whose window does not advance repeats  *)
(* the same iteration for ever; it is followed up to that iteration.       *)
(***************************************************************************)
Chars == {"a", ".", " "}

Texts == UNION {[1..n -> Chars] : n \in 0..MaxTextLen}

\* chunk_text(text, chunk_size, overlap) is called
InitChunk ==
  /\ InitService([faults |-> FALSE, vectors |-> ChunkVectors, observe |-> FALSE,
                  cache_faults |-> FALSE])
  /\ \E text \in Texts, chunk_size \in 1..MaxChunkSize :
       \E overlap \in 0..(chunk_size - 1) :
          chunker = [NoChunker EXCEPT !.text = text, !.chunk_size = chunk_size,
                                      !.overlap = overlap, !.pc = "call"]

\* if len(text) <= chunk_size: return [text]; else chunks = [], start = 0
chunk_text_call ==
  /\ chunker.pc = "call"
  /\ chunker' = IF Len(chunker.text) <= chunker.chunk_size
                THEN [chunker EXCEPT !.chunks = <<chunker.text>>, !.pc = "done"]
                ELSE [chunker EXCEPT !.pc = "loop"]
  /\ UNCHANGED <<docs, chunks, identity_map, pc, args, existing_docs, document, pending,
                 exc, caught, outcome, embed_calls, pre, alone, last, found, env, cache,
                 now, call, lastq, removed>>

\* one iteration of `while start < len(text)`: the window, its chunk, the next start,
\* and the break
chunk_text_iteration ==
  /\ chunker.pc = "loop"
  /\ chunker.start > chunker.previous
  /\ LET c == chunker
         end == ScanEnd(c.text, c.chunk_size, c.start, ScanBack)
         chunk == Strip(Slice(c.text, c.start, end))
         next == end - c.overlap
     IN chunker' = [c EXCEPT !.chunks = IF chunk # <<>> THEN Append(@, chunk) ELSE @,
                             !.windows = Append(@, <<c.start, end>>),
                             !.previous = c.start,
                             !.start = next,
                             !.pc = IF next >= Len(c.text) THEN "done" ELSE "loop"]
  /\ UNCHANGED <<docs, chunks, identity_map, pc, args, existing_docs, document, pending,
                 exc, caught, outcome, embed_calls, pre, alone, last, found, env, cache,
                 now, call, lastq, removed>>

(***************************************************************************)
(* Specifications.                                                         *)
(***************************************************************************)
SourceFilters == {{}, {"gmail"}}
TypeFilters == {{}, {"email"}}

\* the service whose calls Spec follows
Service == "s1"

Next ==
  \/ \E a \in IngestArgs : ingest_document_lookup(Service, a)
  \/ ingest_document_upsert(Service)
  \/ ingest_document_refresh(Service)
  \/ process_document_embed(Service)
  \/ process_document_store(Service)
  \/ process_document_except(Service)
  \/ ingest_document_return(Service)
  \/ session_close(Service)

Spec == Init /\ [][Next]_vars

NextSearch ==
  \/ \E a \in SearchArgs : ingest_document_lookup(Service, a)
  \/ ingest_document_upsert(Service)
  \/ ingest_document_refresh(Service)
  \/ process_document_embed(Service)
  \/ process_document_store(Service)
  \/ ingest_document_return(Service)
  \/ session_close(Service)
  \/ \E u \in Users, q \in QueryVectors, limit \in 1..MaxLimit,
        sources \in SourceFilters, types \in TypeFilters :
       search_similar_chunks(Service, u, q, limit, sources, types)
  \/ search_return(Service)

SpecSearch ==
  InitWith([faults |-> FALSE, vectors |-> ChunkVectors, observe |-> FALSE,
            cache_faults |-> FALSE])
    /\ [][NextSearch]_vars

\* a call of SpecConc starts on a session that holds no instance
NextConc ==
  \E s \in Sessions :
    \/ \E a \in RaceArgs : identity_map[s] = NoObjects /\ ingest_document_lookup(s, a)
    \/ ingest_document_cleanup(s)
    \/ ingest_document_upsert(s)
    \/ ingest_document_refresh(s)
    \/ process_document_embed(s)
    \/ process_document_store(s)
    \/ process_document_except(s)
    \/ ingest_document_return(s)
    \/ session_close(s)

SpecConc ==
  InitWith([faults |-> FALSE, vectors |-> {<<25, 0>>}, observe |-> FALSE,
            cache_faults |-> FALSE])
    /\ [][NextConc]_vars

\* the Documents a retrieval of SpecRetrieve can find: one payload for each source
RetrieveArgs == {a \in SearchArgs : a.user_id = "u1"}

\* SpecRetrieve: one service ingests and retrieves, and nothing fails
NextRetrieve ==
  \/ \E a \in RetrieveArgs : ingest_document_lookup(Service, a)
  \/ ingest_document_upsert(Service)
  \/ ingest_document_refresh(Service)
  \/ process_document_embed(Service)
  \/ process_document_store(Service)
  \/ ingest_document_return(Service)
  \/ session_close(Service)
  \/ \E q \in Queries, limit \in 1..MaxLimit :
       retrieve_lookup(Service, "u1", q, limit, {}, {})
  \/ retrieve_hit(Service)
  \/ retrieve_embed(Service)
  \/ retrieve_search(Service)
  \/ retrieve_cache_write(Service)
  \/ retrieve_return(Service)

SpecRetrieve ==
  InitWith([faults |-> FALSE, vectors |-> {<<25, 0>>}, observe |-> FALSE,
            cache_faults |-> FALSE])
    /\ [][NextRetrieve]_vars

\* the arguments of the calls of SpecContext: a content of one character and one of
\* two chunks, the first of them longer than the budget, from both sources
ContextArgs ==
  {[user_id |-> "u1", source |-> src, source_id |-> "m1",
    document_type |-> IF src = "gmail" THEN "email" ELSE "contact",
    title |-> "t1", content |-> c, metadata |-> None]
   : src \in Sources, c \in {<<"a">>, LongText}}

\* SpecContext: one service ingests from both sources and retrieves one query text
\* with and without a source filter, and nothing fails
NextContext ==
  \/ \E a \in ContextArgs : ingest_document_lookup(Service, a)
  \/ ingest_document_upsert(Service)
  \/ ingest_document_refresh(Service)
  \/ process_document_embed(Service)
  \/ process_document_store(Service)
  \/ ingest_document_return(Service)
  \/ \E limit \in 1..MaxLimit, sources \in SourceFilters :
       retrieve_lookup(Service, "u1", "q1", limit, sources, {})
  \/ retrieve_hit(Service)
  \/ retrieve_embed(Service)
  \/ retrieve_search(Service)
  \/ retrieve_cache_write(Service)
  \/ retrieve_return(Service)

SpecContext ==
  InitWith([faults |-> FALSE, vectors |-> {<<25, 0>>, <<20, 15>>}, observe |-> FALSE,
            cache_faults |-> FALSE])
    /\ [][NextContext]_vars

\* the one Document of SpecCache and SpecCacheConc
CacheArgs ==
  [user_id : {"u1"}, source : {"gmail"}, source_id : SourceIds, document_type : {"email"},
   title : {"t1"}, content : {ShortText}, metadata : {None}]

\* SpecCache: one service ingests and retrieves while time passes; the embedding of
\* the query, the summary and the commits of the query cache may fail
NextCache ==
  \/ \E a \in CacheArgs : ingest_document_lookup(Service, a)
  \/ ingest_document_upsert(Service)
  \/ ingest_document_refresh(Service)
  \/ process_document_embed(Service)
  \/ process_document_store(Service)
  \/ ingest_document_return(Service)
  \/ session_close(Service)
  \/ retrieve_lookup(Service, "u1", "q1", 1, {}, {})
  \/ retrieve_hit(Service)
  \/ retrieve_embed(Service)
  \/ retrieve_search(Service)
  \/ retrieve_cache_write(Service)
  \/ retrieve_return(Service)
  \/ Tick

SpecCache ==
  InitWith([faults |-> FALSE, vectors |-> {<<25, 0>>}, observe |-> FALSE,
            cache_faults |-> TRUE])
    /\ [][NextCache]_vars

\* SpecCacheConc: the first session ingests one Document and retrieves, the second
\* retrieves, for one user and one query text
NextCacheConc ==
  \/ \E a \in CacheArgs : ingest_document_lookup(Service, a)
  \/ ingest_document_upsert(Service)
  \/ ingest_document_refresh(Service)
  \/ process_document_embed(Service)
  \/ process_document_store(Service)
  \/ ingest_document_return(Service)
  \/ \E s \in Sessions :
       \/ retrieve_lookup(s, "u1", "q1", 1, {}, {})
       \/ retrieve_hit(s)
       \/ retrieve_embed(s)
       \/ retrieve_search(s)
       \/ retrieve_cache_write(s)
       \/ retrieve_return(s)

SpecCacheConc ==
  InitWith([faults |-> FALSE, vectors |-> {<<25, 0>>}, observe |-> FALSE,
            cache_faults |-> FALSE])
    /\ [][NextCacheConc]_vars

\* the Documents of SpecDelete: one payload for each user
DeleteArgs == {a \in SearchArgs : a.source = "gmail"}

\* SpecDelete: one service ingests for two users, retrieves, deletes and clears; the
\* embedder and the commits of ingestion and deletion may fail
NextDelete ==
  \/ \E a \in DeleteArgs : ingest_document_lookup(Service, a)
  \/ ingest_document_upsert(Service)
  \/ ingest_document_refresh(Service)
  \/ process_document_embed(Service)
  \/ process_document_store(Service)
  \/ process_document_except(Service)
  \/ ingest_document_return(Service)
  \/ \E u \in Users : retrieve_lookup(Service, u, "q1", 1, {}, {})
  \/ retrieve_hit(Service)
  \/ retrieve_embed(Service)
  \/ retrieve_search(Service)
  \/ retrieve_cache_write(Service)
  \/ retrieve_return(Service)
  \/ \E u \in Users, id \in DocIds(docs) \cup {MissingId} :
       delete_document_execute(Service, u, id)
  \/ delete_document_commit(Service)
  \/ \E u \in Users : clear_user_data_cache(Service, u)
  \/ clear_user_data_chunks(Service)
  \/ maintenance_return(Service)

SpecDelete ==
  InitWith([faults |-> TRUE, vectors |-> {<<25, 0>>}, observe |-> FALSE,
            cache_faults |-> FALSE])
    /\ [][NextDelete]_vars

\* SpecChunk: one call of chunk_text
NextChunk == chunk_text_call \/ chunk_text_iteration

SpecChunk == InitChunk /\ [][NextChunk]_vars

\* SpecExample: chunk_text(document.content) with the default sizes on contents of
\* ExampleLength characters: letters with at most one full stop, at a multiple of
\* ExampleStep
DefaultChunkSize == 1000
DefaultOverlap == 200
ExampleLength == 2500
ExampleStep == 50

ExampleTexts ==
  {[i \in 1..ExampleLength |-> IF i = p * ExampleStep THEN "." ELSE "a"] :
     p \in 0..(ExampleLength \div ExampleStep)}

InitExample ==
  /\ InitService([faults |-> FALSE, vectors |-> ChunkVectors, observe |-> FALSE,
                  cache_faults |-> FALSE])
  /\ \E text \in ExampleTexts :
       chunker = [NoChunker EXCEPT !.text = text, !.chunk_size = DefaultChunkSize,
                                   !.overlap = DefaultOverlap, !.pc = "call"]

SpecExample == InitExample /\ [][NextChunk]_vars

\* the payloads of SpecStale: two contents for one key of u1
StaleArgs ==
  [user_id : {"u1"}, source : {"gmail"}, source_id : SourceIds, document_type : {"email"},
   title : {"t1"}, content : {ShortText, <<"a">>}, metadata : {None}]

\* SpecStale: one service ingests two contents for one key, retrieves and deletes; the
\* embedder and the commits of ingestion and deletion may fail
NextStale ==
  \/ \E a \in StaleArgs : ingest_document_lookup(Service, a)
  \/ ingest_document_upsert(Service)
  \/ ingest_document_refresh(Service)
  \/ process_document_embed(Service)
  \/ process_document_store(Service)
  \/ process_document_except(Service)
  \/ ingest_document_return(Service)
  \/ retrieve_lookup(Service, "u1", "q1", 1, {}, {})
  \/ retrieve_hit(Service)
  \/ retrieve_embed(Service)
  \/ retrieve_search(Service)
  \/ retrieve_cache_write(Service)
  \/ retrieve_return(Service)
  \/ \E id \in DocIds(docs) \cup {MissingId} : delete_document_execute(Service, "u1", id)
  \/ delete_document_commit(Service)
  \/ maintenance_return(Service)

SpecStale ==
  InitWith([faults |-> TRUE, vectors |-> {<<25, 0>>}, observe |-> FALSE,
            cache_faults |-> FALSE])
    /\ [][NextStale]_vars

(***************************************************************************)
(* The claims.  A claim that names one failure, or none, is read with no   *)
(* other failure in the same call.                                         *)
(***************************************************************************)
\* the Documents that share the key of the call of s
DocsOfCall(s) == DocsOfKey(docs, Key(args[s]))

\* the chunks of Document id in `table` are chunk_text(content) in order, one chunk for
\* each chunk_index 0..n-1
ChunksMatch(table, id, content) ==
  LET texts == chunk_text(content, ChunkSize, Overlap)
  IN /\ Cardinality(ChunksOf(table, id)) = Len(texts)
     /\ \A i \in 1..Len(texts) :
          \E c \in ChunksOf(table, id) : c.chunk_index = i - 1 /\ c.content = texts[i]

EmbeddingFailed(s) == exc[s] = EmbeddingFailure
CommitFailed(s) == exc[s] = CommitFailure \/ caught[s] = CommitFailure

\* the call of s has finished and it is the call that follows a call with the same
\* arguments
Repeated(s) == pc[s] = "done" /\ last.args = args[s]

\* C1 (idempotence): when a call that returned a processed Document is repeated with
\* identical arguments and nothing in between, the second call leaves exactly one
\* Document for the key, still processed, with the chunk set it had, and calls the
\* embedding provider zero times.
C1_IdenticalCallChangesNothing ==
  (Repeated(Service) /\ last.outcome = "returned" /\ last.is_processed
     /\ outcome[Service] = "returned")
  => /\ Cardinality(DocsOfCall(Service)) = 1
     /\ \A d \in DocsOfCall(Service) :
          /\ d.is_processed
          /\ ChunksOf(chunks, d.id) = ChunksOf(pre[Service].chunks, d.id)
     /\ embed_calls[Service] = 0

\* C2 (change detection): a successful call for a key whose Document was processed,
\* with a different content, leaves exactly one Document for the key, none of the
\* chunks that existed before the call, and chunks that are chunk_text(new content) in
\* order.
C2_ChangedContentReplacesChunks ==
  (/\ pc[Service] = "done"
   /\ outcome[Service] = "returned"
   /\ \E d \in DocsOfKey(pre[Service].docs, Key(args[Service])) :
         d.is_processed /\ d.content # args[Service].content)
  => /\ Cardinality(DocsOfCall(Service)) = 1
     /\ chunks \cap pre[Service].chunks = {}
     /\ \A d \in DocsOfCall(Service) :
          d.content = args[Service].content
            /\ ChunksMatch(chunks, d.id, args[Service].content)

C2_Witness ==
  /\ pc[Service] = "done"
  /\ outcome[Service] = "returned"
  /\ embed_calls[Service] = 1
  /\ \E d \in DocsOfKey(pre[Service].docs, Key(args[Service])) :
        /\ d.is_processed
        /\ d.content = LongText
        /\ Cardinality(ChunksOf(pre[Service].chunks, d.id)) > 1
  /\ args[Service].content = ShortText

\* C3 (duplicate self-heal): a call that finds two or more Documents for its key, and
\* runs with no other call beside it, leaves exactly one Document for the key: the one
\* with the earliest created_at.
C3_SurvivorIsEarliest ==
  \A s \in Sessions :
    (pc[s] = "done" /\ alone[s] /\ outcome[s] = "returned" /\ Len(existing_docs[s]) > 1)
    => /\ Cardinality(DocsOfCall(s)) = 1
       /\ \A d \in DocsOfCall(s) :
            \A i \in 1..Len(existing_docs[s]) : d.created_at <= existing_docs[s][i].created_at

\* C4 (chunk invariant under concurrency): in every reachable state every processed
\* Document has chunks whose chunk_index values are exactly 0..n-1, none repeated,
\* with the contents of chunk_text(its content); an incomplete chunk set goes with
\* is_processed = false.
C4_ProcessedHasItsChunks ==
  \A d \in docs : d.is_processed => ChunksMatch(chunks, d.id, d.content)

\* the Document the call of s inserted or updated, as persisted
Persisted(s) == {d \in docs : d.id = document[s][1].id}

\* the Document of the call of s was processed, with chunks, before the call
WasProcessed(s) ==
  \E d \in DocsOfKey(pre[s].docs, Key(args[s])) :
     d.is_processed /\ ChunksOf(pre[s].chunks, d.id) # {}

\* C5 (embedding failure): when the embedding provider fails during ingest_document
\* (and nothing else does), the Document remains persisted with is_processed = false,
\* processing_error set to the failure detail and no chunks, and the call raises an
\* error to its caller.
C5_EmbeddingFailureIsRecorded ==
  (pc[Service] = "done" /\ EmbeddingFailed(Service) /\ ~CommitFailed(Service))
  => /\ outcome[Service] \in {"AIError", "DatabaseError"}
     /\ Cardinality(DocsOfCall(Service)) = 1
     /\ DocsOfCall(Service) = Persisted(Service)
     /\ \A d \in Persisted(Service) :
          /\ ~d.is_processed
          /\ d.processing_error = EmbeddingFailure
          /\ d.content = args[Service].content
          /\ ChunksOf(chunks, d.id) = {}

C5_Witness ==
  /\ pc[Service] = "done"
  /\ EmbeddingFailed(Service)
  /\ ~CommitFailed(Service)
  /\ WasProcessed(Service)
  /\ \E d \in Persisted(Service) : d.processing_error = EmbeddingFailure

\* C6 (commit failure): when a commit of ingest_document fails, at whichever commit
\* point, the call raises DatabaseError and the persisted Documents and chunks are
\* those of before the call.
C6_CommitFailureStoresNothing ==
  (pc[Service] = "done" /\ CommitFailed(Service) /\ ~EmbeddingFailed(Service))
  => /\ outcome[Service] = "DatabaseError"
     /\ docs = pre[Service].docs
     /\ chunks = pre[Service].chunks

\* C7 (error class): when the embedding provider fails during ingest_document (and
\* nothing else does), the error that reaches the caller is AIError, not the
\* DatabaseError of a persistence failure.
C7_EmbeddingFailureRaisesAIError ==
  (pc[Service] = "done" /\ EmbeddingFailed(Service) /\ ~CommitFailed(Service))
  => outcome[Service] = "AIError"

\* C8 (recovery): when the call after an embedding failure has the same key, title,
\* content and metadata and nothing fails in it, it calls the embedder again and
\* returns the Document with is_processed = true and chunks that are
\* chunk_text(content), none duplicated.
C8_FailedDocumentIsReprocessed ==
  (/\ Repeated(Service)
   /\ last.exc = EmbeddingFailure
   /\ last.caught = "AIError"
   /\ ~EmbeddingFailed(Service)
   /\ ~CommitFailed(Service))
  => /\ outcome[Service] = "returned"
     /\ embed_calls[Service] = 1
     /\ document[Service][1].is_processed
     /\ Cardinality(DocsOfCall(Service)) = 1
     /\ DocsOfCall(Service) = Persisted(Service)
     /\ \A d \in Persisted(Service) :
          d.is_processed /\ ChunksMatch(chunks, d.id, args[Service].content)

C8_Witness ==
  /\ Repeated(Service)
  /\ last.exc = EmbeddingFailure
  /\ last.caught = "AIError"
  /\ outcome[Service] = "returned"
  /\ \E d \in DocsOfKey(pre[Service].docs, Key(args[Service])) :
        ~d.is_processed /\ d.processing_error = EmbeddingFailure
  /\ \A d \in Persisted(Service) : Cardinality(ChunksOf(chunks, d.id)) > 1

\* the search of s has returned its list to the caller
SearchReturned(s) == pc[s] = "searched" /\ outcome[s] = "returned"

\* C9 (threshold and limit): search_similar_chunks never returns a candidate whose
\* similarity score (1 - cosine distance) is below the threshold, even when that leaves
\* fewer than limit results, and never returns more than limit candidates.
C9_ResultsPassThresholdAndLimit ==
  SearchReturned(Service)
  => LET results == found[Service].results
     IN /\ Len(results) <= found[Service].limit
        /\ \A i \in 1..Len(results) :
             /\ results[i].similarity_score.num * ThresholdDen
                  >= ThresholdNum * results[i].similarity_score.den
             /\ \E c \in chunks :
                  /\ c.id = results[i].chunk_id
                  /\ results[i].similarity_score
                       = Similarity(found[Service].query_embedding, c.embedding)

C9_Witness ==
  /\ SearchReturned(Service)
  /\ Len(found[Service].results) >= 1
  /\ Len(found[Service].results) < Len(found[Service].rows)

\* C10 (scope): every chunk search_similar_chunks returns belongs to a Document of the
\* caller's user_id, whatever other users have ingested, and when sources or
\* document_types is given, to a Document whose source is in sources and whose
\* document_type is in document_types.
C10_ResultsAreInScope ==
  SearchReturned(Service)
  => \A i \in 1..Len(found[Service].results) :
       \E d \in docs :
          /\ d.id = found[Service].results[i].document_id
          /\ d.user_id = found[Service].user_id
          /\ found[Service].sources # {} => d.source \in found[Service].sources
          /\ found[Service].document_types # {}
               => d.document_type \in found[Service].document_types

C10_Witness ==
  /\ SearchReturned(Service)
  /\ Len(found[Service].results) >= 1
  /\ found[Service].sources = {"gmail"}
  /\ \E c \in chunks : c.document_id[1] # found[Service].user_id
  /\ \E c \in chunks :
        c.document_id[1] = found[Service].user_id /\ c.document_id[2] = "hubspot"

(***************************************************************************)
(* The claims about retrieve_context_for_query and the query cache.        *)
(***************************************************************************)
\* sum(len(item["content"]) for item in items)
RECURSIVE TotalLength(_)
TotalLength(items) ==
  IF items = <<>> THEN 0 ELSE Len(Head(items).content) + TotalLength(Tail(items))

\* the retrieve call of s has its list ready for the caller
Retrieved(s) ==
  pc[s] = "retrieved" /\ call[s].op = "retrieve" /\ outcome[s] = "returned"

\* the call missed the cache and met no failure
CleanMiss(s) ==
  Retrieved(s) /\ embed_calls[s] = 1 /\ call[s].raised = None /\ call[s].written # <<>>

\* C11 (context budget): the list retrieve_context_for_query returns never has a total
\* content length above max_context_length, whether it was assembled by this call or
\* read from the cache.
C11_ContextFitsBudget ==
  Retrieved(Service) => TotalLength(call[Service].result) <= MaxContextLength

\* a miss that found two chunks of the user and could keep only one of them
C11_Witness ==
  /\ CleanMiss(Service)
  /\ Len(call[Service].result) = 1
  /\ call[Service].limit * 2 >= 2
  /\ Cardinality(identity_map[Service].chunks \cap {c.id : c \in chunks}) >= 2

\* the session of the call began it with no older copy of a cached row
NoStaleCopy(s) ==
  \A o \in call[s].pre_queries, r \in call[s].pre_cache :
     o.id = r.id => o.hit_count = r.hit_count

\* the call of s follows the retrieval lastq of the same user and query text: neither
\* met a failure, no other call ran during the second, the row the first wrote or
\* served has not expired, and the session has no older copy of it
SecondCall(s) ==
  /\ call[s].op = "retrieve"
  /\ NoStaleCopy(s)
  /\ pc[s] # "idle"
  /\ alone[s]
  /\ call[s].raised = None
  /\ lastq.outcome = "returned"
  /\ lastq.raised = None
  /\ lastq.written # <<>>
  /\ lastq.user_id = call[s].user_id
  /\ lastq.query = call[s].query
  /\ \E r \in call[s].pre_cache : r.id = lastq.written /\ not_expired(r)

HitCountOf(table, id) == (CHOOSE r \in table : r.id = id).hit_count

\* what C12 says of the second call: a hit on the row of the first
ServedFromFirst(s) ==
  /\ call[s].query_hash = lastq.query_hash
  /\ embed_calls[s] = 0
  /\ pc[s] \in {"hit", "retrieved"}
  /\ pc[s] = "retrieved"
       => /\ outcome[s] = "returned"
          /\ call[s].result = lastq.result
          /\ \E r \in cache : r.id = lastq.written
          /\ HitCountOf(cache, lastq.written)
               = HitCountOf(call[s].pre_cache, lastq.written) + 1
          /\ {r.id : r \in cache} = {r.id : r \in call[s].pre_cache}

\* C12 (cache hit counting): two consecutive retrieve_context_for_query
\* calls with the same user and query text (no expiry, no other call in between)
\* compute the same query_hash, and the second returns the list of the first,
\* increments the cached row's hit_count by exactly 1, inserts no cache row and makes
\* no embedding call.
C12_SecondCallIsAHit ==
  \A s \in Sessions : SecondCall(s) => ServedFromFirst(s)

\* expires_at has passed
Expired(r) == r.expires_at <= now

\* the rows of the key of the call of s that had expired when the call began
ExpiredRows(s) ==
  {r \in CacheKeyRows(call[s].pre_cache, call[s].user_id, call[s].query_hash) : Expired(r)}

\* the call of s is a retrieval that has met no failure
Retrieving(s) == call[s].op = "retrieve" /\ pc[s] # "idle" /\ call[s].raised = None

\* C13 (expiry): a QueryCache row whose expires_at has passed is never served: the
\* lookup does not return it, its hit_count and last_accessed_at stay as they were and
\* it is not deleted; when the key has no other row the retrieval is a miss, which
\* calls the embedder and inserts a new row with expires_at = now + 24 hours.
C13_ExpiredRowIsNotServed ==
  \A s \in Sessions :
     Retrieving(s)
     => /\ \A r \in ExpiredRows(s) :
             r \in cache /\ r \notin call[s].rows /\ call[s].written # r.id
        /\ /\ ExpiredRows(s) # {}
           /\ ExpiredRows(s) = CacheKeyRows(call[s].pre_cache, call[s].user_id,
                                            call[s].query_hash)
           => /\ pc[s] # "hit"
              /\ pc[s] = "retrieved"
                   => /\ embed_calls[s] = 1
                      /\ \E n \in cache \ call[s].pre_cache :
                            /\ n.id = call[s].written
                            /\ n.expires_at = now + CacheHours
                            /\ cache = call[s].pre_cache \cup {n}

\* a miss over a row that had served a hit before it expired
C13_Witness ==
  /\ CleanMiss(Service)
  /\ Len(call[Service].result) >= 1
  /\ \E r \in ExpiredRows(Service) : r.hit_count >= 1 /\ r \in cache
  /\ \A r \in CacheKeyRows(call[Service].pre_cache, "u1", get_query_hash("q1")) : Expired(r)

\* C14 (uniqueness): in every reachable state, concurrent retrievals for one user and
\* query text included, at most one QueryCache row of a (user_id, query_hash) has not
\* expired.
C14_OneLiveRowPerKey ==
  \A r1, r2 \in cache :
     /\ r1.user_id = r2.user_id
     /\ r1.query_hash = r2.query_hash
     /\ ~Expired(r1)
     /\ ~Expired(r2)
     => r1 = r2

\* the rows of the key of the call of s that had not expired when the call began
LiveRows(s) ==
  {r \in CacheKeyRows(call[s].pre_cache, call[s].user_id, call[s].query_hash) : ~Expired(r)}

\* C15 (duplicates): when two or more non-expired QueryCache rows exist for one
\* (user_id, query_hash), a later retrieve_context_for_query for that query is served
\* as a cache hit from one of them: that row's hit_count is incremented, no embedding
\* call is made and no further row is inserted.
C15_DuplicatesServeAHit ==
  \A s \in Sessions :
     Retrieving(s) /\ alone[s] /\ Cardinality(LiveRows(s)) >= 2
     => /\ embed_calls[s] = 0
        /\ pc[s] \in {"hit", "retrieved"}
        /\ pc[s] = "retrieved"
             => /\ outcome[s] = "returned"
                /\ \E r \in LiveRows(s) :
                      /\ call[s].written = r.id
                      /\ call[s].result = r.retrieved_chunks
                      /\ HitCountOf(cache, r.id) = r.hit_count + 1
                /\ {r.id : r \in cache} = {r.id : r \in call[s].pre_cache}

\* the call of s has been through _cache_query_result
CacheWriteDone(s) ==
  call[s].op = "retrieve" /\ pc[s] = "retrieved" /\ call[s].context_summary # "none"

\* the summary request of the call failed
SummaryFailed(s) == call[s].context_summary = "text[:200]"

\* the caller gets the list the call assembled, and no exception
ReturnsFreshList(s) == outcome[s] = "returned" /\ call[s].result = call[s].context_items

\* the call has left no row
NoRowLeft(s) == cache = call[s].pre_cache /\ call[s].written = <<>>

Deleted(s) ==
  pc[s] = "deleted" /\ call[s].op = "delete" /\ call[s].raised # CommitFailure

\* a Document with that id, owned by user_id, existed when the call began
Existed(s) ==
  \E d \in call[s].pre_docs : d.id = call[s].document_id /\ d.user_id = call[s].user_id

\* C17 (delete_document): the call returns true exactly when a Document with that id
\* owned by user_id existed, with or without chunks; after true the Document and all
\* its chunks are gone; for a missing id or another owner it returns false and changes
\* nothing.
C17_DeleteReturnsWhetherItExisted ==
  Deleted(Service)
  => /\ outcome[Service] = "True" <=> Existed(Service)
     /\ outcome[Service] = "True"
          => /\ \A d \in docs : d.id # call[Service].document_id
             /\ \A c \in chunks : c.document_id # call[Service].document_id
     /\ ~Existed(Service)
          => /\ outcome[Service] = "False"
             /\ docs = call[Service].pre_docs
             /\ chunks = call[Service].pre_chunks

\* clear_user_data of s has its bool ready
Cleared(s) == pc[s] = "cleared" /\ call[s].op = "clear"

\* the rows of a table that belong to other users than the caller's
OthersDocs(table, user_id) == {d \in table : d.user_id # user_id}
OthersChunks(table, user_id) == {c \in table : c.document_id[1] # user_id}

\* C18 (clear_user_data): a call that meets no database failure returns true and
\* leaves no QueryCache row, DocumentChunk or Document of that user, and the rows of
\* other users are as they were.
C18_ClearRemovesTheUsersRows ==
  Cleared(Service)
  => /\ outcome[Service] = "True"
     /\ \A r \in cache : r.user_id # call[Service].user_id
     /\ \A d \in docs : d.user_id # call[Service].user_id
     /\ \A c \in chunks : c.document_id[1] # call[Service].user_id
     /\ OthersDocs(docs, call[Service].user_id)
          = OthersDocs(call[Service].pre_docs, call[Service].user_id)
     /\ OthersChunks(chunks, call[Service].user_id)
          = OthersChunks(call[Service].pre_chunks, call[Service].user_id)
     /\ OthersDocs(cache, call[Service].user_id)
          = OthersDocs(call[Service].pre_cache, call[Service].user_id)

(***************************************************************************)
(* The claims about chunk_text.                                            *)
(***************************************************************************)
\* the last n characters of a chunk (all of it when it is shorter)
Suffix(t, n) == SubSeq(t, MaxOf(Len(t) - n, 0) + 1, Len(t))

\* t begins with p
BeginsWith(t, p) == Len(t) >= Len(p) /\ SubSeq(t, 1, Len(p)) = p

\* C19 (overlap): for a text longer than chunk_size, every later chunk begins with
\* the last `overlap` characters of the chunk before it.  Read for the texts without
\* whitespace, whose chunks the trimming leaves as the windows cut them.
C19_ChunksOverlap ==
  /\ chunker.pc = "done"
  /\ Len(chunker.text) > chunker.chunk_size
  /\ \A i \in 1..Len(chunker.text) : chunker.text[i] \notin Whitespace
  => \A i \in 1..(Len(chunker.chunks) - 1) :
        /\ Len(chunker.chunks[i]) >= chunker.overlap
        /\ BeginsWith(chunker.chunks[i + 1], Suffix(chunker.chunks[i], chunker.overlap))

\* C20 (termination): chunk_text terminates for every text and every pair
\* 0 <= overlap < chunk_size, because the window start strictly increases with each
\* iteration of the loop.
C20_WindowStartIncreases ==
  chunker.pc = "loop" => chunker.start > chunker.previous

\* C21 (the worked example): a content of 2,500 characters is cut by chunk_text, with
\* chunk_size = 1000 and overlap = 200, into exactly 3 chunks; ingestion stores one
\* DocumentChunk per chunk, at the first ingestion and at every reprocessing.
C21_ExampleHasThreeChunks ==
  /\ chunker.pc = "done"
  /\ Len(chunker.text) = ExampleLength
  /\ chunker.chunk_size = DefaultChunkSize
  /\ chunker.overlap = DefaultOverlap
  => Len(chunker.chunks) = 3

\* C22 (limit): retrieve_context_for_query(user_id, query, limit, ...) never returns
\* more than `limit` context items.
C22_AtMostLimitItems ==
  Retrieved(Service) => Len(call[Service].result) <= call[Service].limit

\* the candidates ranked first..upto, as a sequence
Ranked(similar_chunks, first, upto) ==
  [i \in 1..(upto - first + 1) |-> similar_chunks[first + i - 1]]

\* C23 (greedy prefix): on a cache miss the list retrieve_context_for_query assembles is
\* a prefix of the candidates search_similar_chunks returned, in their order of
\* descending similarity: the longest prefix whose total content length is within the
\* budget, so no candidate ranked after the first one that does not fit is included.
C23_ContextIsLongestPrefix ==
  CleanMiss(Service)
  => LET c == call[Service]
         n == Len(c.result)
     IN /\ n <= Len(c.similar_chunks)
        /\ \A i \in 1..n : /\ c.result[i].chunk_id = c.similar_chunks[i].chunk_id
                           /\ c.result[i].content = c.similar_chunks[i].content
        /\ \A i, j \in 1..Len(c.similar_chunks) :
              i < j => FracGeq(c.similar_chunks[i].similarity_score,
                               c.similar_chunks[j].similarity_score)
        /\ TotalLength(Ranked(c.similar_chunks, 1, n)) <= MaxContextLength
        /\ n < Len(c.similar_chunks)
           => TotalLength(Ranked(c.similar_chunks, 1, n + 1)) > MaxContextLength

\* a miss whose best candidate does not fit the budget while a later one would
C23_Witness ==
  /\ CleanMiss(Service)
  /\ Len(call[Service].similar_chunks) >= 2
  /\ Len(call[Service].similar_chunks[1].content) > MaxContextLength
  /\ \E i \in 2..Len(call[Service].similar_chunks) :
        Len(call[Service].similar_chunks[i].content) <= MaxContextLength
  /\ call[Service].result = <<>>

\* round(x) of a fraction x >= 0 whose half is not hit exactly: floor(x + 1/2)
RoundPercent(score) == (2 * score.num * 100 + score.den) \div (2 * score.den)

\* C24 (relevance score): every context item's relevance_score equals
\* round(similarity_score * 100) of its chunk, an integer between 0 and 100.
C24_RelevanceIsRoundedPercent ==
  CleanMiss(Service)
  => \A i \in 1..Len(call[Service].result) :
        /\ call[Service].result[i].relevance_score
             = RoundPercent(call[Service].similar_chunks[i].similarity_score)
        /\ call[Service].result[i].relevance_score \in 0..100

\* C25 (no empty chunk): for every input text, of any length, the empty string and
\* blank text included, chunk_text never returns a chunk that is empty after trimming.
C25_NoEmptyChunk ==
  chunker.pc = "done"
  => \A i \in 1..Len(chunker.chunks) : Strip(chunker.chunks[i]) # <<>>

\* C26 (chunk size): every chunk chunk_text(text, chunk_size, overlap) returns has at
\* most chunk_size characters, also when the cut is moved to a sentence end.
C26_ChunkFitsChunkSize ==
  chunker.pc = "done"
  => \A i \in 1..Len(chunker.chunks) : Len(chunker.chunks[i]) <= chunker.chunk_size

\* the call of s was served from the cached row `id` and is about to return
HitServed(s, id) ==
  /\ Retrieved(s)
  /\ embed_calls[s] = 0
  /\ call[s].raised = None
  /\ call[s].written = id

\* hit_count of row `id` when the call of s began
HitCountBefore(s, id) == HitCountOf(call[s].pre_cache, id)

\* C27 (concurrent hits): under any interleaving of concurrent cache hits on one
\* QueryCache row, each caller with its own session, hit_count never decreases, and
\* once the calls have finished it has grown by exactly the number of hits served.
\* Stated for the calls in progress: a row never has a lower hit_count than when a
\* call in progress began, and when every session has been served a hit from the same
\* row, all of them begun at the same hit_count and with no older copy of the row in
\* their sessions, the row has gained one per session.
C27_HitCountCountsHits ==
  /\ \A s \in Sessions :
        Retrieving(s)
        => \A o \in call[s].pre_cache, r \in cache :
              o.id = r.id => r.hit_count >= o.hit_count
  /\ \A r \in cache :
        /\ \A s \in Sessions : HitServed(s, r.id) /\ NoStaleCopy(s)
        /\ \A s, t \in Sessions : HitCountBefore(s, r.id) = HitCountBefore(t, r.id)
        => r.hit_count = HitCountBefore(Service, r.id) + Cardinality(Sessions)

\* C28 (filters): every item retrieve_context_for_query returns when it is called with
\* a sources (or document_types) filter has its source (document_type) in that
\* filter, also when the answer is served from a cache row that an earlier call with
\* the same query text and another filter, or none, wrote.
C28_ItemsMatchTheFilter ==
  Retrieved(Service)
  => \A i \in 1..Len(call[Service].result) :
        /\ call[Service].sources # {}
             => call[Service].result[i].source \in call[Service].sources
        /\ call[Service].document_types # {}
             => call[Service].result[i].document_type \in call[Service].document_types

\* C29 (processing_error): in every reachable state a Document with is_processed = true
\* has no processing_error; a successful (re)processing after an embedding failure
\* clears the error, so a Document returned with processing_error set is one that is
\* not yet searchable.
C29_ProcessedHasNoError ==
  \A d \in docs : d.is_processed => d.processing_error = NoError

====
